---- MODULE Spec2Model ----
(***************************************************************************)
(* Model of src/rdcs2.py: RealMultiSourceAnalyzer.                         *)
(*                                                                         *)
(* Two specifications share the variables and the actions:                 *)
(*   SpecEngine  the correlation engine _analyze_real_data_correlations    *)
(*               applied to datasets of the shapes the adapters return,    *)
(*               drawn from bounded sets;                                  *)
(*   Spec        one run_real_analysis_session on a fresh analyzer, the    *)
(*               remote providers answering or failing nondeterministically*)
(*                                                                         *)
(* Numbers.  Times are integers.  A seismic reading's 'time' is epoch      *)
(* milliseconds in the source; it is kept here as whole seconds `s` plus   *)
(* the remainder `ms` (0..999) because TLC's integers are 32 bit.         *)
(* Time differences are in milliseconds.  A confidence is the exact        *)
(* rational c / ConfOne, stored as the integer c (ConfOne stands for 1.0). *)
(* A significance score is the exact rational n / ScoreOne.                *)
(***************************************************************************)
EXTENDS Integers, Sequences, FiniteSets, TLC

(***************************************************************************)
(* Program constants                                                       *)
(***************************************************************************)
\* rdcs2.py:584  `if time_diff < 3600`, seconds
Window == 3600
\* rdcs2.py:581  seismic_event['time'] / 1000: milliseconds per second
MsPerSec == 1000
\* the window in milliseconds; also the integer that stands for confidence 1.0
ConfOne == Window * MsPerSec
\* rdcs2.py:608, 621, 631  the fixed confidences 0.7, 0.6, 0.8
TideLunarConfidence == (7 * ConfOne) \div 10
SpaceWeatherCosmicRayConfidence == (6 * ConfOne) \div 10
MultiSourceConfidence == (8 * ConfOne) \div 10
\* rdcs2.py:626  `>= 3`
MultiSourceThreshold == 3

\* rdcs2.py:170
detectors == <<"H1", "L1", "V1">>
\* rdcs2.py:340-345  the space-weather products, in dict order
endpoints == <<"solar_wind", "proton_flux", "xray_flux", "kp_index">>
\* rdcs2.py:444
planets == <<"mercury", "venus", "earth", "mars", "jupiter", "saturn", "moon">>
\* rdcs2.py:100-107  gps_time of the known events
gw_events ==
    [n \in {"GW150914", "GW151226", "GW170814", "GW170817", "GW190425", "GW190521"} |->
        CASE n = "GW150914" -> 1126259462
          [] n = "GW151226" -> 1135136350
          [] n = "GW170814" -> 1186741861
          [] n = "GW170817" -> 1187008882
          [] n = "GW190425" -> 1240215503
          [] n = "GW190521" -> 1242442967]

\* the clock counts ticks; rdcs2.py:79  the shortest rate limit, 0.5 s, is one tick
TicksPerSecond == 2
\* rdcs2.py:71-97  self.data_sources: the rate_limit of each source, in ticks
rate_limit ==
    [src \in {"usgs_earthquake", "noaa_tides", "noaa_space_weather", "cosmic_ray_data",
              "nasa_horizons"} |->
        CASE src = "usgs_earthquake" -> 1 * TicksPerSecond
          [] src = "noaa_tides" -> TicksPerSecond \div 2
          [] src = "noaa_space_weather" -> 2 * TicksPerSecond
          [] src = "cosmic_ray_data" -> 3 * TicksPerSecond
          [] src = "nasa_horizons" -> 1 * TicksPerSecond]

(***************************************************************************)
(* Configuration (load_config): a configuration file with two tide         *)
(* stations, two cosmic-ray stations and two detector regions.             *)
(***************************************************************************)
tide_stations == <<"west_coast", "east_coast">>
cosmic_ray_stations == <<"oulu", "moscow">>
detector_locations == <<"H1", "L1">>

(***************************************************************************)
(* Bounds of the model                                                     *)
(***************************************************************************)
\* most seismic readings in a dataset handed to the engine
MaxSeismic == 2
\* most single items (not whole providers) that give no data or fail in one run
MaxItemFaults == 1
\* most names that are not known sources in a list of used sources handed to the
\* significance calculation
MaxExtraSources == 2
\* most records in a correlation list handed to the significance calculation
MaxCorrelations == 6
\* longest time a provider takes to answer a request, in ticks
MaxLatency == 1
\* the clock stops here
MaxTime == 16
\* most bodies in a mapping handed to the alignment calculation
MaxBodies == 3
\* most calls of the correlation engine on the same inputs
MaxEngineCalls == 2

(***************************************************************************)
(* Helpers                                                                 *)
(***************************************************************************)
Abs(x) == IF x < 0 THEN -x ELSE x

Min(a, b) == IF a < b THEN a ELSE b

Range(s) == {s[i] : i \in 1..Len(s)}

RECURSIVE Flatten(_)
Flatten(ss) == IF ss = <<>> THEN <<>> ELSE Head(ss) \o Flatten(Tail(ss))

\* the subsequences of s (order kept): what a loop that may skip items builds
RECURSIVE SubSeqs(_)
SubSeqs(s) ==
    IF s = <<>> THEN {<<>>}
    ELSE LET rest == SubSeqs(Tail(s))
         IN  rest \cup {<<Head(s)>> \o r : r \in rest}

\* the sequences over S of length at most n
RECURSIVE SeqsUpTo(_, _)
SeqsUpTo(S, n) ==
    IF n = 0 THEN {<<>>}
    ELSE LET shorter == SeqsUpTo(S, n - 1)
         IN  shorter \cup {<<x>> \o r : x \in S, r \in {q \in shorter : Len(q) = n - 1}}

VARIABLES
    pc,                  \* position in the run
    event_name,          \* the event identifier the session was called with
    event_time,          \* datetime.utcfromtimestamp(gps_time), whole seconds
    session,             \* self.session: "none", "open" or "closed"
    data_cache,          \* self.data_cache: cache key -> strain data
    faults,              \* single items that gave no data or failed so far in the run
    outcomes,            \* per category, what each item's request did
    gw_data,             \* detectors with strain data, in dict order
    seismic_data,        \* list of seismic events
    tide_data,           \* tide stations with readings, in dict order
    space_weather_data,  \* space-weather products with readings, in dict order
    cosmic_ray_data,     \* cosmic-ray stations with readings, in dict order
    planetary_data,      \* {} or {'positions': ..., ...}
    data_sources_used,   \* analysis_results['data_sources_used']
    correlations,        \* analysis_results['correlations_found']
    significance_scores, \* analysis_results['significance_scores']
    insights,            \* analysis_results['insights']
    analysis_outcome,    \* what analyze_real_multi_source_correlations gave its caller
    report,              \* the report text, once generated
    files_saved,         \* the result files written
    pending,             \* an exception is propagating out of the session's try block
    session_outcome,     \* how run_real_analysis_session ended
    alignment_metrics,   \* planetary_data['alignment_metrics']
    correlation_history, \* self.correlation_history
    now,                 \* time.time(), in ticks
    last_request,        \* self.data_sources[src].last_request, in ticks
    sent,                \* per source, when its last two HTTP requests were sent
    latency,             \* how long the providers take to answer a request, in ticks
    coroutines,          \* the coroutines inside _rate_limit: where they are, what they read
    engine_calls         \* history: the calls of _analyze_real_data_correlations so far

datasets == <<gw_data, seismic_data, tide_data, space_weather_data, cosmic_ray_data,
              planetary_data, alignment_metrics>>

timing == <<now, last_request, sent, latency, coroutines>>

results == <<data_sources_used, correlations, significance_scores, insights>>

vars == <<pc, event_name, event_time, session, data_cache, faults, outcomes, datasets,
          results, analysis_outcome, report, files_saved, pending, session_outcome,
          correlation_history, timing, engine_calls>>

(***************************************************************************)
(* _analyze_real_data_correlations (rdcs2.py:568-635)                      *)
(*                                                                         *)
(* A dataset handed to the engine is a list or dict, possibly empty, or    *)
(* None.  None is written as a one-element sequence holding a marker; the  *)
(* planetary dict, a record here, carries the marker as a field.           *)
(***************************************************************************)
None == <<[none |-> TRUE]>>

NonePlanetary == [empty |-> TRUE, positions |-> <<>>, none |-> TRUE]

\* mutant: a comparison with the empty container for the truth test
Truthy_NotEmpty(dataset) == dataset # <<>>

\* rdcs2.py:575, 596, 613, 630  `if x`: neither None nor empty
Truthy(dataset) == dataset # None /\ dataset # <<>>

\* rdcs2.py:596  `planetary_data` as a truth value
TruthyDict(planetary) == ~planetary.empty

\* mutant: the difference without abs()
TimeDiff_Signed(gw_time, seismic_event) ==
    (gw_time - seismic_event.time.s) * MsPerSec - seismic_event.time.ms

\* rdcs2.py:581-582  abs((gw_time - seismic_time).total_seconds()), in ms
TimeDiff(gw_time, seismic_event) ==
    Abs((gw_time - seismic_event.time.s) * MsPerSec - seismic_event.time.ms)

\* mutant: `<=` for `<`
WithinWindow_Inclusive(time_diff) == time_diff <= ConfOne

\* rdcs2.py:584
WithinWindow(time_diff) == time_diff < ConfOne

\* mutant: the confidence falls over two hours instead of one
GwSeismicRecord_TwoHours(detector, seismic_event, gw_time) ==
    LET time_diff == TimeDiff(gw_time, seismic_event)
    IN  [type |-> "gw_seismic_timing",
         gw_detector |-> detector,
         seismic_magnitude |-> seismic_event.magnitude,
         time_difference_ms |-> time_diff,
         distance_km |-> seismic_event.distance_km,
         confidence |-> ConfOne - time_diff \div 2]

\* rdcs2.py:585-592
GwSeismicRecord(detector, seismic_event, gw_time) ==
    LET time_diff == TimeDiff(gw_time, seismic_event)
    IN  [type |-> "gw_seismic_timing",
         gw_detector |-> detector,
         seismic_magnitude |-> seismic_event.magnitude,
         time_difference_ms |-> time_diff,
         distance_km |-> seismic_event.distance_km,
         confidence |-> ConfOne - time_diff]

\* rdcs2.py:574-593  rule 1
GwSeismicRule(gw, seismic, gw_time) ==
    IF Truthy(gw) /\ Truthy(seismic)
    THEN Flatten([d \in 1..Len(gw) |->
            LET hits == SelectSeq(seismic,
                            LAMBDA e : WithinWindow(TimeDiff(gw_time, e)))
            IN  [k \in 1..Len(hits) |-> GwSeismicRecord(gw[d].detector, hits[k], gw_time)]])
    ELSE <<>>

\* rdcs2.py:599  'moon' in planetary_data['positions']
HasMoon(planetary) == \E i \in 1..Len(planetary.positions) : planetary.positions[i].body = "moon"

\* rdcs2.py:600  planetary_data['positions']['moon'].get('distance_au', 1.0)
MoonDistance(planetary) ==
    (CHOOSE p \in Range(planetary.positions) : p.body = "moon").distance_au

\* mutant: any body's position stands for the Moon's
TideLunarRule_AnyBody(tide, planetary) ==
    IF Truthy(tide) /\ TruthyDict(planetary)
    THEN Flatten([i \in 1..Len(tide) |->
            IF planetary.positions # <<>>
            THEN <<[type |-> "tide_lunar_correlation",
                    tide_station |-> tide[i].station,
                    moon_distance_au |-> planetary.positions[1].distance_au,
                    tide_readings_count |-> Len(tide[i].readings),
                    confidence |-> TideLunarConfidence]>>
            ELSE <<>>])
    ELSE <<>>

\* rdcs2.py:595-610  rule 2
TideLunarRule(tide, planetary) ==
    IF Truthy(tide) /\ TruthyDict(planetary)
    THEN Flatten([i \in 1..Len(tide) |->
            IF HasMoon(planetary)
            THEN <<[type |-> "tide_lunar_correlation",
                    tide_station |-> tide[i].station,
                    moon_distance_au |-> MoonDistance(planetary),
                    tide_readings_count |-> Len(tide[i].readings),
                    confidence |-> TideLunarConfidence]>>
            ELSE <<>>])
    ELSE <<>>

\* mutant: the 'solar_wind' test left out
SpaceWeatherCosmicRayRule_AnyProduct(space_weather, cosmic_ray) ==
    IF Truthy(space_weather) /\ Truthy(cosmic_ray)
    THEN [i \in 1..Len(cosmic_ray) |->
            [type |-> "space_weather_cosmic_ray",
             cosmic_ray_station |-> cosmic_ray[i].station,
             solar_wind_available |-> TRUE,
             cosmic_ray_readings |-> cosmic_ray[i].readings_count,
             confidence |-> SpaceWeatherCosmicRayConfidence]]
    ELSE <<>>

\* rdcs2.py:612-623  rule 3
SpaceWeatherCosmicRayRule(space_weather, cosmic_ray) ==
    IF Truthy(space_weather) /\ Truthy(cosmic_ray)
    THEN Flatten([i \in 1..Len(cosmic_ray) |->
            IF \E j \in 1..Len(space_weather) : space_weather[j].data_type = "solar_wind"
            THEN <<[type |-> "space_weather_cosmic_ray",
                    cosmic_ray_station |-> cosmic_ray[i].station,
                    solar_wind_available |-> TRUE,
                    cosmic_ray_readings |-> cosmic_ray[i].readings_count,
                    confidence |-> SpaceWeatherCosmicRayConfidence]>>
            ELSE <<>>])
    ELSE <<>>

\* rdcs2.py:626  len([gw_data, seismic_data, space_weather_data, cosmic_ray_data])
\* the length of the four-element list itself, whatever the datasets hold
MultiSourceListLen(gw, seismic, space_weather, cosmic_ray) ==
    Len(<<gw, seismic, space_weather, cosmic_ray>>)

\* mutant: the count without the `if x` filter
SourcesCount_Unfiltered(gw, seismic, space_weather, cosmic_ray) ==
    Len(<<gw, seismic, space_weather, cosmic_ray>>)

\* rdcs2.py:630  len([x for x in [...] if x])
SourcesCount(gw, seismic, space_weather, cosmic_ray) ==
    LET four == <<Truthy(gw), Truthy(seismic), Truthy(space_weather), Truthy(cosmic_ray)>>
    IN  Cardinality({i \in 1..4 : four[i]})

\* rdcs2.py:625-633  rule 4
MultiSourceRule(gw, seismic, space_weather, cosmic_ray, gw_time) ==
    IF MultiSourceListLen(gw, seismic, space_weather, cosmic_ray) >= MultiSourceThreshold
    THEN <<[type |-> "multi_source_timing",
            event_time |-> gw_time,
            sources_count |-> SourcesCount(gw, seismic, space_weather, cosmic_ray),
            confidence |-> MultiSourceConfidence]>>
    ELSE <<>>

\* rdcs2.py:576, 580  gw_data.items() on None, or iterating seismic_data that is
\* None once per detector, raises
GwSeismicRuleRaises(gw, seismic) ==
    Truthy(gw) /\ Truthy(seismic) /\ (gw = None \/ seismic = None)

\* rdcs2.py:597, 599  tide_data.items() on None raises; planetary_data['positions']
\* raises for every station when the dict has no positions (None, {})
TideLunarRuleRaises(tide, planetary) ==
    Truthy(tide) /\ TruthyDict(planetary) /\ (tide = None \/ planetary.empty)

\* rdcs2.py:614, 615  cosmic_ray_data.items() on None raises; so does
\* `'solar_wind' in space_weather_data` on None, for the first station
SpaceWeatherCosmicRayRuleRaises(space_weather, cosmic_ray) ==
    Truthy(space_weather) /\ Truthy(cosmic_ray) /\ (cosmic_ray = None \/ space_weather = None)

\* an exception leaves _analyze_real_data_correlations (it has no try block)
EngineRaises(gw, seismic, tide, space_weather, cosmic_ray, planetary) ==
    \/ GwSeismicRuleRaises(gw, seismic)
    \/ TideLunarRuleRaises(tide, planetary)
    \/ SpaceWeatherCosmicRayRuleRaises(space_weather, cosmic_ray)

\* mutant: the multi-source rule evaluated first
_analyze_real_data_correlations_MultiFirst(gw, seismic, tide, space_weather, cosmic_ray, planetary, gw_time) ==
    MultiSourceRule(gw, seismic, space_weather, cosmic_ray, gw_time)
        \o GwSeismicRule(gw, seismic, gw_time)
        \o TideLunarRule(tide, planetary)
        \o SpaceWeatherCosmicRayRule(space_weather, cosmic_ray)

\* rdcs2.py:568-635
_analyze_real_data_correlations(gw, seismic, tide, space_weather, cosmic_ray, planetary, gw_time) ==
    GwSeismicRule(gw, seismic, gw_time)
        \o TideLunarRule(tide, planetary)
        \o SpaceWeatherCosmicRayRule(space_weather, cosmic_ray)
        \o MultiSourceRule(gw, seismic, space_weather, cosmic_ray, gw_time)

(***************************************************************************)
(* Datasets of the shapes the adapters return                              *)
(***************************************************************************)
\* fetch_real_gravitational_wave_data: gw_data[detector] = strain_data
GwDatasets == {[i \in 1..Len(s) |-> [detector |-> s[i], samples |-> 32768]] : s \in SubSeqs(detectors)}

\* reading times relative to the event: <<seconds, milliseconds>>
SeismicOffsets == {<<0, 0>>, <<1800, 0>>, <<-3600, 1>>, <<3600, 0>>, <<-7200, 0>>}

\* fetch_real_seismic_data: one seismic_event (rdcs2.py:247-258)
SeismicEvent(region, gw_time, off) ==
    [detector_region |-> region,
     magnitude |-> 30,
     time |-> [s |-> gw_time + off[1], ms |-> off[2]],
     distance_km |-> 250 + Abs(off[1]) \div 100]

SeismicDatasets(gw_time) ==
    SeqsUpTo({SeismicEvent("H1", gw_time, off) : off \in SeismicOffsets}, MaxSeismic)

\* fetch_real_tide_data: tide_data[region] = tide_readings (water levels, mm)
TideReadings(station) == IF station = "west_coast" THEN <<1210, -35>> ELSE <<640>>

TideDatasets == {[i \in 1..Len(s) |-> [station |-> s[i], readings |-> TideReadings(s[i])]] :
                    s \in SubSeqs(tide_stations)}

\* fetch_real_space_weather_data: space_weather[data_type] = filtered_data
SpaceWeatherDatasets ==
    {[i \in 1..Len(s) |-> [data_type |-> s[i]]] :
        s \in {<<>>, <<"kp_index">>, <<"solar_wind">>, endpoints}}

\* fetch_real_cosmic_ray_data: 12 hourly readings per station (rdcs2.py:409-425)
CosmicRayDatasets == {[i \in 1..Len(s) |-> [station |-> s[i], readings_count |-> 12]] :
                        s \in SubSeqs(cosmic_ray_stations)}

\* fetch_real_planetary_positions: {} on failure, else the bodies that were found
\* rdcs2.py:454-459  distance_au stands for body.distance, one value per body
DistanceAu(body) == CHOOSE i \in 1..Len(planets) : planets[i] = body

\* rdcs2.py:455-456  body.ra.degree, body.dec.degree at the event: the model's
\* sky has the angles that are multiples of 90 degrees
RaDeg(body) ==
    CASE body = "mercury" -> 0
      [] body = "venus" -> 90
      [] body = "earth" -> 180
      [] body = "mars" -> 270
      [] body = "jupiter" -> 0
      [] body = "saturn" -> 90
      [] body = "moon" -> 90

DecDeg(body) ==
    IF body = "jupiter" THEN 90 ELSE 0

Positions(bodies) ==
    [i \in 1..Len(bodies) |->
        [body |-> bodies[i], distance_au |-> DistanceAu(bodies[i]),
         ra_deg |-> RaDeg(bodies[i]), dec_deg |-> DecDeg(bodies[i])]]

PlanetaryDatasets ==
    {[empty |-> TRUE, positions |-> <<>>]}
        \cup {[empty |-> FALSE, positions |-> Positions(b)] :
                b \in {planets, SubSeq(planets, 1, Len(planets) - 1), <<"moon">>, <<>>}}

(***************************************************************************)
(* Step 7 of analyze_real_multi_source_correlations (rdcs2.py:544-552)     *)
(***************************************************************************)
\* what a call of the engine is given, and the analyzer's state around it
EngineInputs ==
    <<gw_data, seismic_data, tide_data, space_weather_data, cosmic_ray_data, planetary_data,
      event_time>>

AnalyzerState == <<data_cache, correlation_history, last_request>>

\* mutant: the engine takes the readings off the list as it goes through them
AnalyzeCorrelations_DrainsReadings ==
    /\ pc = "correlate"
    /\ correlations' = _analyze_real_data_correlations(
            gw_data, seismic_data, tide_data, space_weather_data,
            cosmic_ray_data, planetary_data, event_time)
    /\ seismic_data' = <<>>
    /\ pc' = "significance"
    /\ UNCHANGED <<event_name, event_time, session, data_cache, faults, outcomes, gw_data,
                   tide_data, space_weather_data, cosmic_ray_data, planetary_data,
                   alignment_metrics, data_sources_used, significance_scores, insights,
                   analysis_outcome, report, files_saved, pending, session_outcome,
                   correlation_history, timing>>
    /\ engine_calls' = Append(engine_calls,
            [inputs |-> EngineInputs, raised |-> FALSE, result |-> correlations',
             inputs_after |-> EngineInputs', analyzer |-> AnalyzerState,
             analyzer_after |-> AnalyzerState'])

\* an exception of the engine leaves analyze_real_multi_source_correlations too and
\* reaches the session's except clause
AnalyzeCorrelations ==
    /\ pc = "correlate"
    /\ IF EngineRaises(gw_data, seismic_data, tide_data, space_weather_data,
                       cosmic_ray_data, planetary_data)
       THEN /\ analysis_outcome' = "raised"
            /\ pc' = "except"
            /\ UNCHANGED correlations
       ELSE /\ correlations' = _analyze_real_data_correlations(
                    gw_data, seismic_data, tide_data, space_weather_data,
                    cosmic_ray_data, planetary_data, event_time)
            /\ pc' = "significance"
            /\ UNCHANGED analysis_outcome
    /\ UNCHANGED <<event_name, event_time, session, data_cache, faults, outcomes, datasets,
                   data_sources_used, significance_scores, insights,
                   report, files_saved, pending, session_outcome,
                   correlation_history, timing>>
    /\ engine_calls' = Append(engine_calls,
            [inputs |-> EngineInputs, raised |-> pc' = "except", result |-> correlations',
             inputs_after |-> EngineInputs', analyzer |-> AnalyzerState,
             analyzer_after |-> AnalyzerState'])

(***************************************************************************)
(* The remote providers.  A request for one item (a detector, a region, a  *)
(* station, a product, a body) gives "data", gives nothing ("none": no     *)
(* data, an HTTP error status) or raises ("error"); a seismic response may *)
(* also raise while its events are read, after the first ("partial").  In  *)
(* one run either a provider is out (every request to it raises) or single *)
(* items fail, at most MaxItemFaults of them over the whole run.           *)
(***************************************************************************)
ItemOutcomes(n, kinds) == [1..n -> {"data"} \cup kinds]

IsOutage(out) == \A i \in DOMAIN out : out[i] = "error"

NumFaulty(out) == Cardinality({i \in DOMAIN out : out[i] \in {"none", "error", "partial"}})

Admissible(out) == IsOutage(out) \/ faults + NumFaulty(out) <= MaxItemFaults

FaultsAfter(out) == IF IsOutage(out) THEN faults ELSE faults + NumFaulty(out)

\* mutant: the try block around the whole loop, so the first failure ends it
Kept_UntilFailure(items, out) ==
    LET bad == {i \in 1..Len(items) : out[i] = "error"}
        idx == SelectSeq([i \in 1..Len(items) |-> i],
                         LAMBDA i : out[i] \in {"data", "cached"} /\ \A b \in bad : i < b)
    IN  [k \in 1..Len(idx) |-> items[idx[k]]]

\* the items a fetch loop keeps: every item whose own request gave data; an
\* exception is caught inside the loop body and the loop goes on
Kept(items, out) ==
    LET idx == SelectSeq([i \in 1..Len(items) |-> i], LAMBDA i : out[i] \in {"data", "cached"})
    IN  [k \in 1..Len(idx) |-> items[idx[k]]]

\* mutant: the name is appended whether or not the dataset is truthy
AppendIfData_Always(used, has_data, name) == Append(used, name)

\* rdcs2.py:496, 505, 513, ...  data_sources_used.append(name) when the dataset is truthy
AppendIfData(used, has_data, name) == IF has_data THEN Append(used, name) ELSE used

Record(whole, items) == [whole |-> whole, items |-> items]

\* data_sources_used as analyze_real_multi_source_correlations builds it (rdcs2.py:501-542)
SourcesUsed(gw, seismic, tide, space_weather, cosmic_ray, planetary) ==
    AppendIfData(AppendIfData(AppendIfData(AppendIfData(AppendIfData(AppendIfData(<<>>,
        Truthy(gw), "gravitational_waves"),
        Truthy(seismic), "seismic"),
        Truthy(tide), "ocean_tides"),
        Truthy(space_weather), "space_weather"),
        Truthy(cosmic_ray), "cosmic_rays"),
        TruthyDict(planetary), "planetary_positions")

(***************************************************************************)
(* _calculate_planetary_alignment (rdcs2.py:766-799)                       *)
(*                                                                         *)
(* Angles are whole degrees, multiples of 90, where sine and cosine are    *)
(* integers.  They stand for arbitrary angles, whose sines, cosines and    *)
(* products are rounded: the float cos_sep is the exact value `near` or a  *)
(* float next to it, `ulps` rounding steps away.  A separation is `deg`    *)
(* whole degrees plus `fine` steps of the smallest angles arccos returns   *)
(* (arccos of the float below 1.0 is 8.5e-7 degrees).                      *)
(***************************************************************************)
\* rdcs2.py:780  pos.get('ra_deg') is None
NoAngle == -1

SinDeg(a) ==
    CASE a % 360 = 0 -> 0
      [] a % 360 = 90 -> 1
      [] a % 360 = 180 -> 0
      [] a % 360 = 270 -> -1

CosDeg(a) ==
    CASE a % 360 = 0 -> 1
      [] a % 360 = 90 -> 0
      [] a % 360 = 180 -> -1
      [] a % 360 = 270 -> 0

\* rdcs2.py:785-786  the float the expression evaluates to, `err` steps off
CosSep(pos1, pos2, err) ==
    [near |-> SinDeg(pos1.dec_deg) * SinDeg(pos2.dec_deg)
                + CosDeg(pos1.dec_deg) * CosDeg(pos2.dec_deg)
                    * CosDeg(pos1.ra_deg - pos2.ra_deg),
     ulps |-> err]

\* rdcs2.py:787  np.clip(cos_sep, -1, 1)
Clip(x) ==
    IF x.near = 1 /\ x.ulps > 0 THEN [near |-> 1, ulps |-> 0]
    ELSE IF x.near = -1 /\ x.ulps < 0 THEN [near |-> -1, ulps |-> 0]
    ELSE x

\* rdcs2.py:787  np.degrees(np.arccos(x)): nan outside [-1, 1]; the cosine
\* falls as the angle grows
ArccosDeg(x) ==
    IF (x.near = 1 /\ x.ulps > 0) \/ (x.near = -1 /\ x.ulps < 0)
    THEN [deg |-> 0, fine |-> 0, nan |-> TRUE]
    ELSE [deg |-> CASE x.near = 1 -> 0 [] x.near = 0 -> 90 [] x.near = -1 -> 180,
          fine |-> -x.ulps,
          nan |-> FALSE]

\* rdcs2.py:775-788  the separations, pair by pair
Separations(positions, err) ==
    LET pairs == SelectSeq(
                    Flatten([i \in 1..Len(positions) |->
                                [k \in 1..(Len(positions) - i) |-> <<i, i + k>>]]),
                    LAMBDA pr : positions[pr[1]].ra_deg # NoAngle
                                    /\ positions[pr[2]].ra_deg # NoAngle)
    IN  [n \in 1..Len(pairs) |->
            ArccosDeg(Clip(CosSep(positions[pairs[n][1]], positions[pairs[n][2]], err)))]

\* a < b for separations
SepLess(a, b) == a.deg < b.deg \/ (a.deg = b.deg /\ a.fine < b.fine)

RECURSIVE SumOf(_, _)
SumOf(seps, field) ==
    IF seps = <<>> THEN 0 ELSE Head(seps)[field] + SumOf(Tail(seps), field)

\* rdcs2.py:791-797  the metrics of a list of separations; np.mean of no
\* separations, and every metric of a list that holds a nan, is nan
Metrics(seps) ==
    LET nan == seps = <<>> \/ \E n \in 1..Len(seps) : seps[n].nan
        least == IF nan THEN [deg |-> 0, fine |-> 0, nan |-> TRUE]
                 ELSE CHOOSE a \in Range(seps) : \A b \in Range(seps) : ~SepLess(b, a)
        most == IF nan THEN [deg |-> 0, fine |-> 0, nan |-> TRUE]
                ELSE CHOOSE a \in Range(seps) : \A b \in Range(seps) : ~SepLess(a, b)
        mean == [sum_deg |-> SumOf(seps, "deg"), sum_fine |-> SumOf(seps, "fine"),
                 count |-> Len(seps), nan |-> nan]
    IN  [empty |-> FALSE,
         mean_separation_deg |-> mean,
         min_separation_deg |-> least,
         max_separation_deg |-> most,
         \* 1.0 / (1.0 + mean) = count / (count + sum)
         alignment_score |-> [num |-> mean.count, den_deg |-> mean.count + mean.sum_deg,
                              den_fine |-> mean.sum_fine, nan |-> nan],
         tight_alignment |-> ~nan /\ least.deg < 30]

\* mutant: neither the early return nor the `if separations` test
_calculate_planetary_alignment_Unguarded(positions, err) ==
    Metrics(Separations(positions, err))

\* rdcs2.py:766-799  {} is [empty |-> TRUE]
_calculate_planetary_alignment(positions, err) ==
    IF Len(positions) < 2
    THEN [empty |-> TRUE]
    ELSE IF Separations(positions, err) # <<>>
         THEN Metrics(Separations(positions, err))
         ELSE [empty |-> TRUE]

\* the rounding of one evaluation of cos_sep
RoundingErrors == {-1, 0, 1}

(***************************************************************************)
(* The adapters                                                            *)
(***************************************************************************)
\* rdcs2.py:178
CacheKey(name, detector) == <<"gw", name, detector>>

\* the strain data GWOSC holds for a detector (rdcs2.py:185-190)
StrainData(detector) == [detector |-> detector, samples |-> 32768]

\* rdcs2.py:160-202
fetch_real_gravitational_wave_data(name, out, cache) ==
    LET kept == Kept(detectors, out)
    IN  [k \in 1..Len(kept) |->
            IF CacheKey(name, kept[k]) \in DOMAIN cache
            THEN cache[CacheKey(name, kept[k])]
            ELSE StrainData(kept[k])]

\* mutant: storing an event's data drops the entries of the other events
CacheAfterFetch_KeepsOneEvent(name, out, cache) ==
    LET fetched == {i \in 1..Len(detectors) : out[i] = "data"}
        kept == {key \in DOMAIN cache : fetched = {} \/ key[2] = name}
    IN  [key \in kept |-> cache[key]]
            @@ [key \in {CacheKey(name, detectors[i]) : i \in fetched} |-> StrainData(key[3])]

\* rdcs2.py:194  self.data_cache[cache_key] = strain_data
CacheAfterFetch(name, out, cache) ==
    LET fetched == {i \in 1..Len(detectors) : out[i] = "data"}
    IN  cache @@ [key \in {CacheKey(name, detectors[i]) : i \in fetched} |->
                    StrainData(key[3])]

\* what USGS holds near a detector around the event (rdcs2.py:238-259)
RemoteFeatures(region, gw_time) ==
    IF region = "H1"
    THEN <<SeismicEvent("H1", gw_time, <<1800, 0>>)>>
    ELSE <<SeismicEvent(region, gw_time, <<-3600, 1>>), SeismicEvent(region, gw_time, <<3600, 0>>)>>

\* rdcs2.py:204-268  events appended before an exception stay in the list
fetch_real_seismic_data(gw_time, out) ==
    Flatten([i \in 1..Len(detector_locations) |->
                LET features == RemoteFeatures(detector_locations[i], gw_time)
                IN  CASE out[i] = "data" -> features
                      [] out[i] = "partial" -> <<Head(features)>>
                      [] OTHER -> <<>>])

\* rdcs2.py:270-323
fetch_real_tide_data(out) ==
    LET kept == Kept(tide_stations, out)
    IN  [k \in 1..Len(kept) |-> [station |-> kept[k], readings |-> TideReadings(kept[k])]]

\* rdcs2.py:325-372
fetch_real_space_weather_data(out) ==
    LET kept == Kept(endpoints, out)
    IN  [k \in 1..Len(kept) |-> [data_type |-> kept[k]]]

\* rdcs2.py:409  hours = int((end_time - start_time).total_seconds() / 3600), a 12 hour window
CosmicRayHours == 12

\* rdcs2.py:374-434
fetch_real_cosmic_ray_data(out) ==
    LET kept == Kept(cosmic_ray_stations, out)
    IN  [k \in 1..Len(kept) |-> [station |-> kept[k], readings_count |-> CosmicRayHours]]

\* rdcs2.py:436-478  `whole`: the outer try failed and {} is returned
fetch_real_planetary_positions(whole, out) ==
    IF whole
    THEN [empty |-> TRUE, positions |-> <<>>]
    ELSE [empty |-> FALSE, positions |-> Positions(Kept(planets, out))]

(***************************************************************************)
(* _calculate_real_data_significance (rdcs2.py:637-661).  Scores are in    *)
(* units of 1 / ScoreOne.                                                  *)
(***************************************************************************)
\* rdcs2.py:643  source_count / 6
SourceNorm == 6
\* rdcs2.py:647  correlation_count / 5
CorrelationNorm == 5
\* rdcs2.py:659  np.mean of the three scores
NumScores == 3
ScoreOne == NumScores * SourceNorm * CorrelationNorm

\* rdcs2.py:650-653
real_data_sources ==
    <<"gravitational_waves", "seismic", "ocean_tides", "space_weather", "cosmic_rays",
      "planetary_positions">>

\* mutant: the diversity without its cut-off at 1
_calculate_real_data_significance_NoCutOff(used, found) ==
    LET diversity == (Len(used) * ScoreOne) \div SourceNorm
        strength == Min(ScoreOne, (Len(found) * ScoreOne) \div CorrelationNorm)
        real_data_score == Cardinality({i \in 1..Len(used) : used[i] \in Range(real_data_sources)})
        completeness == (real_data_score * ScoreOne) \div Len(real_data_sources)
    IN  [data_source_diversity |-> diversity,
         correlation_strength |-> strength,
         real_data_completeness |-> completeness,
         overall |-> (diversity + strength + completeness) \div NumScores]

\* mutant: every used source counted as a known one
_calculate_real_data_significance_Unfiltered(used, found) ==
    LET diversity == Min(ScoreOne, (Len(used) * ScoreOne) \div SourceNorm)
        strength == Min(ScoreOne, (Len(found) * ScoreOne) \div CorrelationNorm)
        completeness == (Len(used) * ScoreOne) \div Len(real_data_sources)
    IN  [data_source_diversity |-> diversity,
         correlation_strength |-> strength,
         real_data_completeness |-> completeness,
         overall |-> (diversity + strength + completeness) \div NumScores]

\* rdcs2.py:637-661
_calculate_real_data_significance(used, found) ==
    LET diversity == Min(ScoreOne, (Len(used) * ScoreOne) \div SourceNorm)
        strength == Min(ScoreOne, (Len(found) * ScoreOne) \div CorrelationNorm)
        real_data_score == Cardinality({i \in 1..Len(used) : used[i] \in Range(real_data_sources)})
        completeness == (real_data_score * ScoreOne) \div Len(real_data_sources)
    IN  [data_source_diversity |-> diversity,
         correlation_strength |-> strength,
         real_data_completeness |-> completeness,
         overall |-> (diversity + strength + completeness) \div NumScores]

\* rdcs2.py:663-712  the insights, by kind
_generate_real_data_insights(used, found, significance) ==
    LET env_count == Cardinality({i \in 1..Len(used) :
                        used[i] \in {"seismic", "ocean_tides", "space_weather", "cosmic_rays"}})
    IN  (IF Len(used) >= 4 THEN <<"comprehensive">> ELSE <<>>)
            \o (IF "gravitational_waves" \in Range(used) THEN <<"gw_detectors">> ELSE <<>>)
            \o (IF env_count >= 2 THEN <<"environmental">> ELSE <<>>)
            \o (IF found # <<>> THEN <<"correlations">> ELSE <<>>)
            \o (IF significance.overall * 10 > 7 * ScoreOne THEN <<"high_significance">>
                ELSE IF significance.overall * 10 > 5 * ScoreOne THEN <<"moderate_significance">>
                ELSE <<"limited">>)

(***************************************************************************)
(* run_real_analysis_session (rdcs2.py:907-957) and                        *)
(* analyze_real_multi_source_correlations (rdcs2.py:480-566), step by step *)
(***************************************************************************)
\* rdcs2.py:919, 147-153
InitializeSession ==
    /\ pc = "start"
    /\ \/ /\ session' = "open"
          /\ pc' = "analyze"
       \/ /\ pc' = "except"
          /\ UNCHANGED session
    /\ UNCHANGED <<event_name, event_time, data_cache, faults, outcomes, datasets, results,
                   analysis_outcome, report, files_saved, pending, session_outcome,
                   correlation_history, timing, engine_calls>>

\* rdcs2.py:484-499  an unknown event is logged and {} is returned
StartAnalysis ==
    /\ pc = "analyze"
    /\ IF event_name \notin DOMAIN gw_events
       THEN /\ analysis_outcome' = "empty_dict"
            /\ pc' = "report"
            /\ UNCHANGED event_time
       ELSE /\ event_time' = gw_events[event_name]
            /\ pc' = "fetch_gw"
            /\ UNCHANGED analysis_outcome
    /\ UNCHANGED <<event_name, session, data_cache, faults, outcomes, datasets, results,
                   report, files_saved, pending, session_outcome,
                   correlation_history, timing, engine_calls>>

\* rdcs2.py:716-720  wait_time, when _rate_limit is entered at current_time
WaitTime(source, current_time) ==
    LET time_since_last == current_time - last_request[source]
    IN  IF time_since_last < rate_limit[source]
        THEN rate_limit[source] - time_since_last
        ELSE 0

\* the last two of the times at which requests went to a source
LastTwo(times) == IF Len(times) <= 2 THEN times ELSE SubSeq(times, Len(times) - 1, Len(times))

\* rdcs2.py:714-724 and the request loop of an adapter (rdcs2.py:232-266,
\* 285-321, 347-367): one _rate_limit at the start of the call (the sleep, then
\* last_request = time.time()), then n requests, one after the other, each
\* answered after `latency` ticks
RateLimitedRequests(source, n) ==
    LET stamped == now + WaitTime(source, now)
    IN  /\ stamped + n * latency <= MaxTime
        /\ last_request' = [last_request EXCEPT ![source] = stamped]
        /\ sent' = [sent EXCEPT ![source] =
                        LastTwo(@ \o [k \in 1..n |-> stamped + (k - 1) * latency])]
        /\ now' = stamped + n * latency
        /\ UNCHANGED <<latency, coroutines>>

\* rdcs2.py:160-202  the adapter, called for an event
GravitationalWaveAdapter(name) ==
    \E out \in [1..Len(detectors) -> {"data", "none", "error", "cached"}] :
        /\ \A i \in 1..Len(detectors) :
                out[i] = "cached" <=> CacheKey(name, detectors[i]) \in DOMAIN data_cache
        /\ Admissible(out)
        /\ gw_data' = fetch_real_gravitational_wave_data(name, out, data_cache)
        /\ data_cache' = CacheAfterFetch(name, out, data_cache)
        /\ faults' = FaultsAfter(out)
        /\ outcomes' = ("gravitational_waves" :> Record(FALSE, out)) @@ outcomes

\* rdcs2.py:204-268
SeismicAdapter(gw_time) ==
    \E out \in ItemOutcomes(Len(detector_locations), {"none", "error", "partial"}) :
        /\ Admissible(out)
        /\ RateLimitedRequests("usgs_earthquake", Len(detector_locations))
        /\ seismic_data' = fetch_real_seismic_data(gw_time, out)
        /\ faults' = FaultsAfter(out)
        /\ outcomes' = ("seismic" :> Record(FALSE, out)) @@ outcomes

\* rdcs2.py:270-323
TideAdapter ==
    \E out \in ItemOutcomes(Len(tide_stations), {"none", "error"}) :
        /\ Admissible(out)
        /\ RateLimitedRequests("noaa_tides", Len(tide_stations))
        /\ tide_data' = fetch_real_tide_data(out)
        /\ faults' = FaultsAfter(out)
        /\ outcomes' = ("ocean_tides" :> Record(FALSE, out)) @@ outcomes

\* rdcs2.py:325-372
SpaceWeatherAdapter ==
    \E out \in ItemOutcomes(Len(endpoints), {"none", "error"}) :
        /\ Admissible(out)
        /\ RateLimitedRequests("noaa_space_weather", Len(endpoints))
        /\ space_weather_data' = fetch_real_space_weather_data(out)
        /\ faults' = FaultsAfter(out)
        /\ outcomes' = ("space_weather" :> Record(FALSE, out)) @@ outcomes

\* rdcs2.py:374-434  _rate_limit, then the readings are generated locally, no
\* request is sent: a station gives data or raises
CosmicRayAdapter ==
    \E out \in ItemOutcomes(Len(cosmic_ray_stations), {"error"}) :
        /\ Admissible(out)
        /\ RateLimitedRequests("cosmic_ray_data", 0)
        /\ cosmic_ray_data' = fetch_real_cosmic_ray_data(out)
        /\ faults' = FaultsAfter(out)
        /\ outcomes' = ("cosmic_rays" :> Record(FALSE, out)) @@ outcomes

\* rdcs2.py:436-478  either the whole computation fails ({}), or single bodies do
PlanetaryAdapter ==
    \/ /\ planetary_data' = fetch_real_planetary_positions(TRUE, <<>>)
       /\ alignment_metrics' = [empty |-> TRUE]
       /\ outcomes' = ("planetary_positions" :> Record(TRUE, <<>>)) @@ outcomes
       /\ UNCHANGED faults
    \/ \E out \in ItemOutcomes(Len(planets), {"error"}), err \in RoundingErrors :
            /\ faults + NumFaulty(out) <= MaxItemFaults
            /\ planetary_data' = fetch_real_planetary_positions(FALSE, out)
            /\ alignment_metrics' =
                    _calculate_planetary_alignment(Positions(Kept(planets, out)), err)
            /\ faults' = faults + NumFaulty(out)
            /\ outcomes' = ("planetary_positions" :> Record(FALSE, out)) @@ outcomes

\* rdcs2.py:501-507
FetchGravitationalWaves ==
    /\ pc = "fetch_gw"
    /\ GravitationalWaveAdapter(event_name)
    /\ data_sources_used' = AppendIfData(data_sources_used, gw_data' # <<>>, "gravitational_waves")
    /\ pc' = "fetch_seismic"
    /\ UNCHANGED <<event_name, event_time, session, seismic_data, tide_data,
                   space_weather_data, cosmic_ray_data, planetary_data, alignment_metrics,
                   correlations, significance_scores, insights, analysis_outcome, report,
                   files_saved, pending, session_outcome, correlation_history, timing,
                   engine_calls>>

\* rdcs2.py:509-514
FetchSeismic ==
    /\ pc = "fetch_seismic"
    /\ SeismicAdapter(event_time)
    /\ data_sources_used' = AppendIfData(data_sources_used, seismic_data' # <<>>, "seismic")
    /\ pc' = "fetch_tide"
    /\ UNCHANGED <<event_name, event_time, session, data_cache, gw_data, tide_data,
                   space_weather_data, cosmic_ray_data, planetary_data, alignment_metrics,
                   correlations, significance_scores, insights, analysis_outcome, report,
                   files_saved, pending, session_outcome, correlation_history,
                   engine_calls>>

\* rdcs2.py:516-521
FetchTides ==
    /\ pc = "fetch_tide"
    /\ TideAdapter
    /\ data_sources_used' = AppendIfData(data_sources_used, tide_data' # <<>>, "ocean_tides")
    /\ pc' = "fetch_space_weather"
    /\ UNCHANGED <<event_name, event_time, session, data_cache, gw_data, seismic_data,
                   space_weather_data, cosmic_ray_data, planetary_data, alignment_metrics,
                   correlations, significance_scores, insights, analysis_outcome, report,
                   files_saved, pending, session_outcome, correlation_history,
                   engine_calls>>

\* rdcs2.py:523-528
FetchSpaceWeather ==
    /\ pc = "fetch_space_weather"
    /\ SpaceWeatherAdapter
    /\ data_sources_used' =
            AppendIfData(data_sources_used, space_weather_data' # <<>>, "space_weather")
    /\ pc' = "fetch_cosmic_ray"
    /\ UNCHANGED <<event_name, event_time, session, data_cache, gw_data, seismic_data,
                   tide_data, cosmic_ray_data, planetary_data, alignment_metrics,
                   correlations, significance_scores, insights, analysis_outcome, report,
                   files_saved, pending, session_outcome, correlation_history,
                   engine_calls>>

\* mutant: the planetary positions are not awaited before the engine starts
FetchCosmicRays_SkipsPlanetary ==
    /\ pc = "fetch_cosmic_ray"
    /\ CosmicRayAdapter
    /\ data_sources_used' = AppendIfData(data_sources_used, cosmic_ray_data' # <<>>, "cosmic_rays")
    /\ pc' = "correlate"
    /\ UNCHANGED <<event_name, event_time, session, data_cache, gw_data, seismic_data,
                   tide_data, space_weather_data, planetary_data, alignment_metrics,
                   correlations, significance_scores, insights, analysis_outcome, report,
                   files_saved, pending, session_outcome, correlation_history,
                   engine_calls>>

\* rdcs2.py:530-535
FetchCosmicRays ==
    /\ pc = "fetch_cosmic_ray"
    /\ CosmicRayAdapter
    /\ data_sources_used' = AppendIfData(data_sources_used, cosmic_ray_data' # <<>>, "cosmic_rays")
    /\ pc' = "fetch_planetary"
    /\ UNCHANGED <<event_name, event_time, session, data_cache, gw_data, seismic_data,
                   tide_data, space_weather_data, planetary_data, alignment_metrics,
                   correlations, significance_scores, insights, analysis_outcome, report,
                   files_saved, pending, session_outcome, correlation_history,
                   engine_calls>>

\* rdcs2.py:537-542
FetchPlanetary ==
    /\ pc = "fetch_planetary"
    /\ PlanetaryAdapter
    /\ data_sources_used' =
            AppendIfData(data_sources_used, ~planetary_data'.empty, "planetary_positions")
    /\ pc' = "correlate"
    /\ UNCHANGED <<event_name, event_time, session, data_cache, gw_data, seismic_data,
                   tide_data, space_weather_data, cosmic_ray_data, correlations,
                   significance_scores, insights, analysis_outcome, report, files_saved,
                   pending, session_outcome, correlation_history, timing, engine_calls>>

\* rdcs2.py:554-557
CalculateSignificance ==
    /\ pc = "significance"
    /\ significance_scores' = _calculate_real_data_significance(data_sources_used, correlations)
    /\ pc' = "insights"
    /\ UNCHANGED <<event_name, event_time, session, data_cache, faults, outcomes, datasets,
                   data_sources_used, correlations, insights, analysis_outcome, report,
                   files_saved, pending, session_outcome,
                   correlation_history, timing, engine_calls>>

\* rdcs2.py:559-566  the insights, then `return analysis_results`
GenerateInsights ==
    /\ pc = "insights"
    /\ insights' = _generate_real_data_insights(data_sources_used, correlations,
                                                significance_scores)
    /\ analysis_outcome' = "results"
    /\ pc' = "report"
    /\ UNCHANGED <<event_name, event_time, session, data_cache, faults, outcomes, datasets,
                   data_sources_used, correlations, significance_scores, report,
                   files_saved, pending, session_outcome,
                   correlation_history, timing, engine_calls>>

\* rdcs2.py:926, 801-905  analysis_results['event_name'] raises KeyError on {}
GenerateReport ==
    /\ pc = "report"
    /\ IF analysis_outcome = "empty_dict"
       THEN /\ pc' = "except"
            /\ UNCHANGED report
       ELSE /\ report' = "generated"
            /\ pc' = "save"
    /\ UNCHANGED <<event_name, event_time, session, data_cache, faults, outcomes, datasets,
                   results, analysis_outcome, files_saved, pending, session_outcome,
                   correlation_history, timing, engine_calls>>

\* rdcs2.py:928-950  the two files are written, or writing raises
SaveResults ==
    /\ pc = "save"
    /\ \/ /\ files_saved' = {"results_json", "report_txt"}
          /\ pc' = "finally"
       \/ /\ pc' = "except"
          /\ UNCHANGED files_saved
    /\ UNCHANGED <<event_name, event_time, session, data_cache, faults, outcomes, datasets,
                   results, analysis_outcome, report, pending, session_outcome,
                   correlation_history, timing, engine_calls>>

\* mutant: the cleanup at the end of the try block, not in a finally clause
HandleException_NoFinally ==
    /\ pc = "except"
    /\ pending' = TRUE
    /\ session_outcome' = "raised"
    /\ pc' = "done"
    /\ UNCHANGED <<event_name, event_time, session, data_cache, faults, outcomes, datasets,
                   results, analysis_outcome, report, files_saved,
                   correlation_history, timing, engine_calls>>

\* rdcs2.py:952-954  except Exception: log, raise
HandleException ==
    /\ pc = "except"
    /\ pending' = TRUE
    /\ pc' = "finally"
    /\ UNCHANGED <<event_name, event_time, session, data_cache, faults, outcomes, datasets,
                   results, analysis_outcome, report, files_saved, session_outcome,
                   correlation_history, timing, engine_calls>>

\* rdcs2.py:955-957, 155-158  finally: cleanup_session; then the return or the raise
CleanupSession ==
    /\ pc = "finally"
    /\ session' = IF session = "open" THEN "closed" ELSE session
    /\ session_outcome' = IF pending THEN "raised" ELSE "returned"
    /\ pc' = "done"
    /\ UNCHANGED <<event_name, event_time, data_cache, faults, outcomes, datasets, results,
                   analysis_outcome, report, files_saved, pending,
                   correlation_history, timing, engine_calls>>

\* rdcs2.py:65-110  the analyzer as __init__ leaves it; last_request is 0.0 and
\* the clock is far from it: no rate limit makes the first call wait
StartTime == rate_limit["cosmic_ray_data"]

FreshAnalyzer ==
    /\ correlation_history = <<>>
    /\ last_request = [src \in DOMAIN rate_limit |-> 0]
    /\ now = StartTime
    /\ sent = [src \in DOMAIN rate_limit |-> <<>>]
    /\ coroutines = <<>>
    /\ engine_calls = <<>>
    /\ alignment_metrics = [empty |-> TRUE]

\* the event identifiers a session is called with: known ones and an unknown one
EventNames == {"GW170817", "GW150914", "GW000000"}

Init ==
    /\ pc = "start"
    /\ event_name \in EventNames
    /\ event_time = 0
    /\ session = "none"
    /\ data_cache = <<>>
    /\ faults = 0
    /\ outcomes = <<>>
    /\ gw_data = <<>>
    /\ seismic_data = <<>>
    /\ tide_data = <<>>
    /\ space_weather_data = <<>>
    /\ cosmic_ray_data = <<>>
    /\ planetary_data = [empty |-> TRUE, positions |-> <<>>]
    /\ data_sources_used = <<>>
    /\ correlations = <<>>
    /\ significance_scores = <<>>
    /\ insights = <<>>
    /\ analysis_outcome = "running"
    /\ report = "none"
    /\ files_saved = {}
    /\ pending = FALSE
    /\ session_outcome = "running"
    /\ FreshAnalyzer
    /\ latency \in 0..MaxLatency

Next ==
    \/ InitializeSession
    \/ StartAnalysis
    \/ FetchGravitationalWaves
    \/ FetchSeismic
    \/ FetchTides
    \/ FetchSpaceWeather
    \/ FetchCosmicRays
    \/ FetchPlanetary
    \/ AnalyzeCorrelations
    \/ CalculateSignificance
    \/ GenerateInsights
    \/ GenerateReport
    \/ SaveResults
    \/ HandleException
    \/ CleanupSession

Spec == Init /\ [][Next]_vars

(***************************************************************************)
(* SpecEngine: the engine applied once to every combination of datasets    *)
(***************************************************************************)
InitEngine ==
    /\ pc = "correlate"
    /\ event_name = "GW170817"
    /\ event_time = gw_events["GW170817"]
    /\ session = "open"
    /\ data_cache = <<>>
    /\ faults = 0
    /\ outcomes = <<>>
    /\ gw_data \in GwDatasets
    /\ seismic_data \in SeismicDatasets(gw_events["GW170817"])
    /\ tide_data \in TideDatasets
    /\ space_weather_data \in SpaceWeatherDatasets
    /\ cosmic_ray_data \in CosmicRayDatasets
    /\ planetary_data \in PlanetaryDatasets
    /\ data_sources_used = SourcesUsed(gw_data, seismic_data, tide_data, space_weather_data,
                                       cosmic_ray_data, planetary_data)
    /\ correlations = <<>>
    /\ significance_scores = <<>>
    /\ insights = <<>>
    /\ analysis_outcome = "running"
    /\ report = "none"
    /\ files_saved = {}
    /\ pending = FALSE
    /\ session_outcome = "running"
    /\ FreshAnalyzer
    /\ latency = 0

NextEngine == AnalyzeCorrelations

SpecEngine == InitEngine /\ [][NextEngine]_vars

(***************************************************************************)
(* SpecPartial: the engine applied once to every combination of missing    *)
(* (None), empty and non-empty datasets                                    *)
(***************************************************************************)
InitPartial ==
    /\ pc = "correlate"
    /\ event_name = "GW170817"
    /\ event_time = gw_events["GW170817"]
    /\ session = "open"
    /\ data_cache = <<>>
    /\ faults = 0
    /\ outcomes = <<>>
    /\ gw_data \in {None, <<>>} \cup {d \in GwDatasets : Len(d) = Len(detectors)}
    /\ seismic_data \in {None, <<>>} \cup {d \in SeismicDatasets(gw_events["GW170817"]) : Len(d) = 1}
    /\ tide_data \in {None, <<>>} \cup {d \in TideDatasets : Len(d) = Len(tide_stations)}
    /\ space_weather_data \in {None} \cup SpaceWeatherDatasets
    /\ cosmic_ray_data \in {None, <<>>} \cup {d \in CosmicRayDatasets : Len(d) = Len(cosmic_ray_stations)}
    /\ planetary_data \in {NonePlanetary} \cup PlanetaryDatasets
    /\ data_sources_used = SourcesUsed(gw_data, seismic_data, tide_data, space_weather_data,
                                       cosmic_ray_data, planetary_data)
    /\ correlations = <<>>
    /\ significance_scores = <<>>
    /\ insights = <<>>
    /\ analysis_outcome = "running"
    /\ report = "none"
    /\ files_saved = {}
    /\ pending = FALSE
    /\ session_outcome = "running"
    /\ FreshAnalyzer
    /\ latency = 0

SpecPartial == InitPartial /\ [][NextEngine]_vars

(***************************************************************************)
(* SpecSignificance: _calculate_real_data_significance applied once to     *)
(* lists of used sources (known names and names that are not among the     *)
(* known ones) and to correlation lists of every length                    *)
(***************************************************************************)
\* analysis_results['data_sources_used']: a list of strings; every name is
\* appended once at most (rdcs2.py:505-542), so no list repeats a name
UsedLists ==
    {known \o extra : known \in SubSeqs(real_data_sources),
                      extra \in {e \in SeqsUpTo({"simulated", "synthetic"}, MaxExtraSources) :
                                    \A i, j \in 1..Len(e) : e[i] = e[j] => i = j}}

\* analysis_results['correlations_found']: only its length is read
CorrelationLists ==
    {[i \in 1..n |-> [type |-> "multi_source_timing", event_time |-> gw_events["GW170817"],
                      sources_count |-> 0, confidence |-> MultiSourceConfidence]] :
        n \in 0..MaxCorrelations}

InitSignificance ==
    /\ pc = "significance"
    /\ event_name = "GW170817"
    /\ event_time = gw_events["GW170817"]
    /\ session = "open"
    /\ data_cache = <<>>
    /\ faults = 0
    /\ outcomes = <<>>
    /\ gw_data = <<>>
    /\ seismic_data = <<>>
    /\ tide_data = <<>>
    /\ space_weather_data = <<>>
    /\ cosmic_ray_data = <<>>
    /\ planetary_data = [empty |-> TRUE, positions |-> <<>>]
    /\ data_sources_used \in UsedLists
    /\ correlations \in CorrelationLists
    /\ significance_scores = <<>>
    /\ insights = <<>>
    /\ analysis_outcome = "running"
    /\ report = "none"
    /\ files_saved = {}
    /\ pending = FALSE
    /\ session_outcome = "running"
    /\ FreshAnalyzer
    /\ latency = 0

NextSignificance == CalculateSignificance

SpecSignificance == InitSignificance /\ [][NextSignificance]_vars

(***************************************************************************)
(* SpecRepeat: the engine called again and again with the same inputs, by  *)
(* an analyzer that has a filled cache and has sent requests before        *)
(***************************************************************************)
\* the caller hands the same datasets to the engine once more
RepeatCall ==
    /\ pc = "significance"
    /\ Len(engine_calls) < MaxEngineCalls
    /\ pc' = "correlate"
    /\ UNCHANGED <<event_name, event_time, session, data_cache, faults, outcomes, datasets,
                   results, analysis_outcome, report, files_saved, pending, session_outcome,
                   correlation_history, timing, engine_calls>>

InitRepeat ==
    /\ pc = "correlate"
    /\ event_name = "GW170817"
    /\ event_time = gw_events["GW170817"]
    /\ session = "open"
    /\ data_cache = CacheAfterFetch("GW170817", [i \in 1..Len(detectors) |-> "data"], <<>>)
    /\ faults = 0
    /\ outcomes = <<>>
    /\ gw_data \in {d \in GwDatasets : Len(d) \in {0, Len(detectors)}}
    /\ seismic_data \in SeismicDatasets(gw_events["GW170817"])
    /\ tide_data \in {d \in TideDatasets : Len(d) \in {0, Len(tide_stations)}}
    /\ space_weather_data \in SpaceWeatherDatasets
    /\ cosmic_ray_data \in {d \in CosmicRayDatasets : Len(d) \in {0, Len(cosmic_ray_stations)}}
    /\ planetary_data \in PlanetaryDatasets
    /\ data_sources_used = SourcesUsed(gw_data, seismic_data, tide_data, space_weather_data,
                                       cosmic_ray_data, planetary_data)
    /\ correlations = <<>>
    /\ significance_scores = <<>>
    /\ insights = <<>>
    /\ analysis_outcome = "running"
    /\ report = "none"
    /\ files_saved = {}
    /\ pending = FALSE
    /\ session_outcome = "running"
    /\ correlation_history = <<>>
    /\ last_request = [src \in DOMAIN rate_limit |-> StartTime]
    /\ now = StartTime
    /\ sent = [src \in DOMAIN rate_limit |-> <<>>]
    /\ coroutines = <<>>
    /\ latency = 0
    /\ engine_calls = <<>>
    /\ alignment_metrics = [empty |-> TRUE]

NextRepeat ==
    \/ AnalyzeCorrelations
    \/ RepeatCall

SpecRepeat == InitRepeat /\ [][NextRepeat]_vars

(***************************************************************************)
(* SpecAlignment: _calculate_planetary_alignment applied to position lists *)
(* of zero to MaxBodies bodies                                             *)
(***************************************************************************)
\* (ra_deg, dec_deg) of a body; a body without 'ra_deg' has NoAngle
SkyPoints == {<<0, 0>>, <<90, 0>>, <<180, 0>>, <<0, 90>>, <<0, -90>>, <<NoAngle, 0>>}

\* rdcs2.py:455-461  the position dicts of the first bodies of `planets`
PositionLists ==
    {[k \in 1..Len(points) |->
        [body |-> planets[k], distance_au |-> DistanceAu(planets[k]),
         ra_deg |-> points[k][1], dec_deg |-> points[k][2]]] :
     points \in SeqsUpTo(SkyPoints, MaxBodies)}

\* rdcs2.py:465  the call of self._calculate_planetary_alignment(positions)
CalculateAlignment ==
    /\ pc = "alignment"
    /\ \E err \in RoundingErrors :
          alignment_metrics' = _calculate_planetary_alignment(planetary_data.positions, err)
    /\ pc' = "aligned"
    /\ UNCHANGED <<event_name, event_time, session, data_cache, faults, outcomes, gw_data,
                   seismic_data, tide_data, space_weather_data, cosmic_ray_data,
                   planetary_data, results, analysis_outcome, report, files_saved, pending,
                   session_outcome, correlation_history, timing, engine_calls>>

InitAlignment ==
    /\ pc = "alignment"
    /\ event_name = "GW170817"
    /\ event_time = gw_events["GW170817"]
    /\ session = "open"
    /\ data_cache = <<>>
    /\ faults = 0
    /\ outcomes = <<>>
    /\ gw_data = <<>>
    /\ seismic_data = <<>>
    /\ tide_data = <<>>
    /\ space_weather_data = <<>>
    /\ cosmic_ray_data = <<>>
    /\ \E positions \in PositionLists :
          planetary_data = [empty |-> FALSE, positions |-> positions]
    /\ data_sources_used = <<>>
    /\ correlations = <<>>
    /\ significance_scores = <<>>
    /\ insights = <<>>
    /\ analysis_outcome = "running"
    /\ report = "none"
    /\ files_saved = {}
    /\ pending = FALSE
    /\ session_outcome = "running"
    /\ FreshAnalyzer
    /\ latency = 0

NextAlignment == CalculateAlignment

SpecAlignment == InitAlignment /\ [][NextAlignment]_vars

(***************************************************************************)
(* SpecCache: fetch_real_gravitational_wave_data called again and again,   *)
(* for one event or another, on one analyzer                               *)
(***************************************************************************)
\* the events the caller asks for
CacheEvents == {"GW150914", "GW170817"}

\* rdcs2.py:160-202  one call of the adapter
FetchAgain ==
    /\ pc = "idle"
    /\ \E name \in CacheEvents :
          /\ event_name' = name
          /\ GravitationalWaveAdapter(name)
    /\ pc' = "fetched"
    /\ UNCHANGED <<event_time, session, seismic_data, tide_data, space_weather_data,
                   cosmic_ray_data, planetary_data, alignment_metrics, results,
                   analysis_outcome, report, files_saved, pending, session_outcome,
                   correlation_history, timing, engine_calls>>

\* rdcs2.py:202  `return gw_data`: the caller has the data and may call
\* again; the count of failed items starts anew with the next call
ReturnToCaller ==
    /\ pc = "fetched"
    /\ pc' = "idle"
    /\ faults' = 0
    /\ UNCHANGED <<event_name, event_time, session, data_cache, outcomes, datasets, results,
                   analysis_outcome, report, files_saved, pending, session_outcome,
                   correlation_history, timing, engine_calls>>

InitCache ==
    /\ pc = "idle"
    /\ event_name \in CacheEvents
    /\ event_time = gw_events[event_name]
    /\ session = "open"
    /\ data_cache = <<>>
    /\ faults = 0
    /\ outcomes = <<>>
    /\ gw_data = <<>>
    /\ seismic_data = <<>>
    /\ tide_data = <<>>
    /\ space_weather_data = <<>>
    /\ cosmic_ray_data = <<>>
    /\ planetary_data = [empty |-> TRUE, positions |-> <<>>]
    /\ data_sources_used = <<>>
    /\ correlations = <<>>
    /\ significance_scores = <<>>
    /\ insights = <<>>
    /\ analysis_outcome = "running"
    /\ report = "none"
    /\ files_saved = {}
    /\ pending = FALSE
    /\ session_outcome = "running"
    /\ FreshAnalyzer
    /\ latency = 0

NextCache ==
    \/ FetchAgain
    \/ ReturnToCaller

SpecCache == InitCache /\ [][NextCache]_vars

(***************************************************************************)
(* SpecRace: two coroutines call _rate_limit for one source on one         *)
(* analyzer.  The event loop runs a coroutine until its next await, so a   *)
(* call is two steps when it sleeps (up to the await, and from the wake-up *)
(* to the return) and one step when it does not.                           *)
(***************************************************************************)
Callers == {"first", "second"}

\* rdcs2.py:716-722  up to the await: the clock and last_request are read;
\* rdcs2.py:724 when there is nothing to wait for
RateLimitEnter(c) ==
    /\ coroutines[c].at = "call"
    /\ LET source == coroutines[c].source
           wait_time == WaitTime(source, now)
       IN  IF wait_time > 0
           THEN /\ coroutines' = [coroutines EXCEPT ![c].at = "sleep",
                                                    ![c].wake = now + wait_time]
                /\ UNCHANGED last_request
           ELSE /\ last_request' = [last_request EXCEPT ![source] = now]
                /\ coroutines' = [coroutines EXCEPT ![c].at = "returned",
                                                    ![c].proceeded = now]
    /\ UNCHANGED <<pc, event_name, event_time, session, data_cache, faults, outcomes, datasets,
                   results, analysis_outcome, report, files_saved, pending, session_outcome,
                   correlation_history, now, sent, latency, engine_calls>>

\* rdcs2.py:722-724  asyncio.sleep is over, at the wake-up time or later:
\* last_request = time.time(), and the caller goes on to its request
RateLimitWake(c) ==
    /\ coroutines[c].at = "sleep"
    /\ now >= coroutines[c].wake
    /\ last_request' = [last_request EXCEPT ![coroutines[c].source] = now]
    /\ coroutines' = [coroutines EXCEPT ![c].at = "returned", ![c].proceeded = now]
    /\ UNCHANGED <<pc, event_name, event_time, session, data_cache, faults, outcomes, datasets,
                   results, analysis_outcome, report, files_saved, pending, session_outcome,
                   correlation_history, now, sent, latency, engine_calls>>

\* time.time() goes on
Tick ==
    /\ now < MaxTime
    /\ now' = now + 1
    /\ UNCHANGED <<pc, event_name, event_time, session, data_cache, faults, outcomes, datasets,
                   results, analysis_outcome, report, files_saved, pending, session_outcome,
                   correlation_history, last_request, sent, latency, coroutines, engine_calls>>

\* an analyzer that is fresh or has called _rate_limit for the source before,
\* and two coroutines about to call it
InitRace ==
    /\ pc = "idle"
    /\ event_name = "GW170817"
    /\ event_time = gw_events["GW170817"]
    /\ session = "open"
    /\ data_cache = <<>>
    /\ faults = 0
    /\ outcomes = <<>>
    /\ gw_data = <<>>
    /\ seismic_data = <<>>
    /\ tide_data = <<>>
    /\ space_weather_data = <<>>
    /\ cosmic_ray_data = <<>>
    /\ planetary_data = [empty |-> TRUE, positions |-> <<>>]
    /\ alignment_metrics = [empty |-> TRUE]
    /\ data_sources_used = <<>>
    /\ correlations = <<>>
    /\ significance_scores = <<>>
    /\ insights = <<>>
    /\ analysis_outcome = "running"
    /\ report = "none"
    /\ files_saved = {}
    /\ pending = FALSE
    /\ session_outcome = "running"
    /\ correlation_history = <<>>
    /\ engine_calls = <<>>
    /\ now = StartTime
    /\ latency = 0
    /\ sent = [src \in DOMAIN rate_limit |-> <<>>]
    /\ \E source \in DOMAIN rate_limit, last \in 0..StartTime :
          /\ last_request = [src \in DOMAIN rate_limit |-> IF src = source THEN last ELSE 0]
          /\ coroutines = [c \in Callers |->
                              [at |-> "call", source |-> source, wake |-> 0, proceeded |-> 0]]

NextRace ==
    \/ \E c \in Callers : RateLimitEnter(c)
    \/ \E c \in Callers : RateLimitWake(c)
    \/ Tick

SpecRace == InitRace /\ [][NextRace]_vars

(***************************************************************************)
(* Properties of the correlation engine (checked under SpecEngine)         *)
(***************************************************************************)
\* the engine has returned its list into `correlations`
EngineReturned == pc \in {"significance", "insights"}

ByType(t) == SelectSeq(correlations, LAMBDA r : r.type = t)

\* |reference_time - reading time| of the k-th seismic reading, in milliseconds
DeltaT(k) ==
    LET d == (event_time - seismic_data[k].time.s) * 1000 - seismic_data[k].time.ms
    IN  IF d < 0 THEN -d ELSE d

\* the (detector, reading) pairs whose reading lies strictly inside the hour
TimingPairs == {p \in (1..Len(gw_data)) \X (1..Len(seismic_data)) : DeltaT(p[2]) < 3600 * 1000}

SamePairContent(p, q) ==
    /\ gw_data[p[1]].detector = gw_data[q[1]].detector
    /\ seismic_data[p[2]] = seismic_data[q[2]]

RecordOfPair(r, p) ==
    /\ r.gw_detector = gw_data[p[1]].detector
    /\ r.time_difference_ms = DeltaT(p[2])
    /\ r.seismic_magnitude = seismic_data[p[2]].magnitude
    /\ r.distance_km = seismic_data[p[2]].distance_km

\* C1: the gw_seismic_timing records are exactly one per (detector, seismic
\* reading) pair with dt < 3600 s, each with confidence 1 - dt/3600 (1.0 at
\* dt = 0); a reading with dt >= 3600 s gives no record, and there is none when
\* the gravitational-wave or the seismic dataset is empty.
C1_GwSeismicTiming ==
    EngineReturned =>
        LET recs == ByType("gw_seismic_timing")
        IN  /\ Len(recs) = Cardinality(TimingPairs)
            /\ \A p \in TimingPairs :
                    Cardinality({i \in 1..Len(recs) : RecordOfPair(recs[i], p)})
                        = Cardinality({q \in TimingPairs : SamePairContent(p, q)})
            /\ \A i \in 1..Len(recs) :
                    /\ recs[i].time_difference_ms < 3600 * 1000
                    \* confidence / ConfOne = 1 - dt_ms / 3600000, and ConfOne = 3600000
                    /\ ConfOne = 3600 * 1000
                    /\ recs[i].confidence = ConfOne - recs[i].time_difference_ms
                    /\ (recs[i].time_difference_ms = 0 => recs[i].confidence = ConfOne)
            /\ (gw_data = <<>> \/ seismic_data = <<>>) => recs = <<>>

\* C1 witness: two detectors, one reading at dt = 0 and one at dt = 3600 s exactly:
\* one record per detector, all with confidence 1.0, the second reading left out
C1_Witness ==
    /\ EngineReturned
    /\ Len(gw_data) = 2
    /\ Len(seismic_data) = 2
    /\ DeltaT(1) = 0
    /\ DeltaT(2) = 3600 * 1000
    /\ Len(ByType("gw_seismic_timing")) = 2
    /\ \A i \in 1..2 : ByType("gw_seismic_timing")[i].confidence = ConfOne

\* how many of the four timing datasets are non-empty
NonEmptyCount ==
    (IF gw_data # <<>> THEN 1 ELSE 0) + (IF seismic_data # <<>> THEN 1 ELSE 0)
        + (IF space_weather_data # <<>> THEN 1 ELSE 0)
        + (IF cosmic_ray_data # <<>> THEN 1 ELSE 0)

\* C2: with fewer than 3 of the four datasets {gravitational-wave, seismic,
\* space-weather, cosmic-ray} non-empty, the list holds no multi_source_timing
\* record.  (The code emits one whatever the datasets hold.)
C2_NoMultiSourceBelowThree ==
    (EngineReturned /\ NonEmptyCount < 3) => ByType("multi_source_timing") = <<>>

\* C3: with at least 3 of the four datasets non-empty the list holds exactly one
\* multi_source_timing record, with confidence 0.8 and sources_count equal to the
\* number of non-empty datasets among the four.
C3_MultiSourceAtLeastThree ==
    (EngineReturned /\ NonEmptyCount >= 3) =>
        LET recs == ByType("multi_source_timing")
        IN  /\ Len(recs) = 1
            /\ recs[1].confidence * 10 = 8 * ConfOne
            /\ recs[1].sources_count = NonEmptyCount

\* C3 witness: exactly three of the four are non-empty and the record counts 3
C3_Witness ==
    /\ EngineReturned
    /\ NonEmptyCount = 3
    /\ cosmic_ray_data = <<>>
    /\ Len(ByType("multi_source_timing")) = 1
    /\ ByType("multi_source_timing")[1].sources_count = 3

\* the planetary data holds a position for the Moon
MoonPresent ==
    /\ ~planetary_data.empty
    /\ \E i \in 1..Len(planetary_data.positions) : planetary_data.positions[i].body = "moon"

\* C7: tide_lunar_correlation records are emitted iff the tide dataset is
\* non-empty and the planetary data holds a position for the Moon; then there is
\* exactly one per tide station, each with confidence 0.7 whatever the water
\* levels, and no other dataset changes these records.
C7_TideLunar ==
    EngineReturned =>
        LET recs == ByType("tide_lunar_correlation")
        IN  IF tide_data # <<>> /\ MoonPresent
            THEN /\ Len(recs) = Len(tide_data)
                 /\ \A i \in 1..Len(recs) :
                        /\ recs[i].tide_station = tide_data[i].station
                        /\ recs[i].tide_readings_count = Len(tide_data[i].readings)
                        /\ recs[i].confidence * 10 = 7 * ConfOne
            ELSE recs = <<>>

\* C7 witness: two stations with different water levels, the Moon present, and
\* neither gravitational-wave nor seismic data
C7_Witness ==
    /\ EngineReturned
    /\ Len(tide_data) = 2
    /\ tide_data[1].readings # tide_data[2].readings
    /\ MoonPresent
    /\ gw_data = <<>>
    /\ seismic_data = <<>>
    /\ Len(ByType("tide_lunar_correlation")) = 2

SolarWindPresent ==
    \E j \in 1..Len(space_weather_data) : space_weather_data[j].data_type = "solar_wind"

\* C8: space_weather_cosmic_ray records are emitted iff the space-weather
\* dataset holds solar-wind readings and the cosmic-ray dataset is non-empty;
\* then there is exactly one per cosmic-ray station, each with confidence 0.6.
C8_SpaceWeatherCosmicRay ==
    EngineReturned =>
        LET recs == ByType("space_weather_cosmic_ray")
        IN  IF SolarWindPresent /\ cosmic_ray_data # <<>>
            THEN /\ Len(recs) = Len(cosmic_ray_data)
                 /\ \A i \in 1..Len(recs) :
                        /\ recs[i].cosmic_ray_station = cosmic_ray_data[i].station
                        /\ recs[i].confidence * 10 = 6 * ConfOne
            ELSE recs = <<>>

\* C8 witness: solar wind and two cosmic-ray stations give two records
C8_Witness ==
    /\ EngineReturned
    /\ SolarWindPresent
    /\ Len(cosmic_ray_data) = 2
    /\ Len(ByType("space_weather_cosmic_ray")) = 2

RuleRank(t) ==
    CASE t = "gw_seismic_timing" -> 1
      [] t = "tide_lunar_correlation" -> 2
      [] t = "space_weather_cosmic_ray" -> 3
      [] t = "multi_source_timing" -> 4

\* position of a station in the dataset it comes from
TideIndex(s) == CHOOSE i \in 1..Len(tide_data) : tide_data[i].station = s
CosmicRayIndex(s) == CHOOSE i \in 1..Len(cosmic_ray_data) : cosmic_ray_data[i].station = s

\* the seismic readings inside the hour, by position, in list order
ReadingsInWindow ==
    SelectSeq([k \in 1..Len(seismic_data) |-> k], LAMBDA k : DeltaT(k) < 3600 * 1000)

\* C9: the list is ordered by rule (gw_seismic_timing, then
\* tide_lunar_correlation, then space_weather_cosmic_ray, then
\* multi_source_timing) and, within a rule, by the iteration order of
\* detectors/stations and readings: detector by detector and, for one detector,
\* reading by reading; station by station.
C9_RuleOrder ==
    EngineReturned =>
        /\ \A i, j \in 1..Len(correlations) :
                i < j =>
                    /\ RuleRank(correlations[i].type) <= RuleRank(correlations[j].type)
                    /\ correlations[i].type = "tide_lunar_correlation"
                            /\ correlations[j].type = "tide_lunar_correlation"
                        => TideIndex(correlations[i].tide_station)
                                < TideIndex(correlations[j].tide_station)
                    /\ correlations[i].type = "space_weather_cosmic_ray"
                            /\ correlations[j].type = "space_weather_cosmic_ray"
                        => CosmicRayIndex(correlations[i].cosmic_ray_station)
                                < CosmicRayIndex(correlations[j].cosmic_ray_station)
        /\ LET n == Len(ReadingsInWindow)
           IN  \A d \in 1..Len(gw_data), k \in 1..n :
                    /\ (d - 1) * n + k <= Len(correlations)
                    /\ correlations[(d - 1) * n + k].type = "gw_seismic_timing"
                    /\ RecordOfPair(correlations[(d - 1) * n + k], <<d, ReadingsInWindow[k]>>)

\* C9 witness: all four rules fire, the first three with two or more records,
\* and the two seismic readings differ
C9_Witness ==
    /\ EngineReturned
    /\ Len(seismic_data) = 2
    /\ DeltaT(1) > DeltaT(2)
    /\ Len(ByType("gw_seismic_timing")) >= 4
    /\ Len(ByType("tide_lunar_correlation")) = 2
    /\ Len(ByType("space_weather_cosmic_ray")) = 2
    /\ Len(ByType("multi_source_timing")) = 1

\* C10: every record of the list has a confidence in [0, 1].
C10_ConfidenceInUnitInterval ==
    EngineReturned =>
        \A i \in 1..Len(correlations) :
            /\ 0 <= correlations[i].confidence
            /\ correlations[i].confidence <= ConfOne

\* C10 witness: a list with records of all four rules, among them timing records
\* of a reading before and of a reading after the event
C10_Witness ==
    /\ EngineReturned
    /\ \E k, m \in 1..Len(seismic_data) :
            /\ seismic_data[k].time.s < event_time
            /\ seismic_data[m].time.s > event_time
            /\ DeltaT(k) < 3600 * 1000
            /\ DeltaT(m) < 3600 * 1000
    /\ ByType("gw_seismic_timing") # <<>>
    /\ ByType("tide_lunar_correlation") # <<>>
    /\ ByType("space_weather_cosmic_ray") # <<>>
    /\ ByType("multi_source_timing") # <<>>

\* the scenario: the event GW170817 at t = 1187008882, gravitational-wave data
\* present, and exactly one seismic reading, at t + 1800 s
ScenarioHalfHour ==
    /\ EngineReturned
    /\ event_time = 1187008882
    /\ gw_data # <<>>
    /\ Len(seismic_data) = 1
    /\ seismic_data[1].time = [s |-> 1187008882 + 1800, ms |-> 0]

\* C14 as claimed: in the scenario the list holds exactly one gw_seismic_timing
\* record, and its confidence is 0.5.
C14_ExactlyOneRecord ==
    ScenarioHalfHour =>
        /\ Len(ByType("gw_seismic_timing")) = 1
        /\ ByType("gw_seismic_timing")[1].confidence * 2 = ConfOne

\* C14 as amended: in the scenario the list holds exactly one gw_seismic_timing
\* record for each detector that has gravitational-wave data, in the detectors'
\* order, each with time difference 1800 s and confidence 0.5.
C14_OneRecordPerDetector ==
    ScenarioHalfHour =>
        LET recs == ByType("gw_seismic_timing")
        IN  /\ Len(recs) = Len(gw_data)
            /\ \A i \in 1..Len(recs) :
                    /\ recs[i].gw_detector = gw_data[i].detector
                    /\ recs[i].time_difference_ms = 1800 * 1000
                    /\ recs[i].confidence * 2 = ConfOne

\* C14 witness: the scenario with the data of all three detectors: three records
C14_Witness ==
    /\ ScenarioHalfHour
    /\ Len(gw_data) = 3
    /\ Len(ByType("gw_seismic_timing")) = 3
    /\ ByType("gw_seismic_timing")[3].confidence * 2 = ConfOne

RuleTypes ==
    {"gw_seismic_timing", "tide_lunar_correlation", "space_weather_cosmic_ray",
     "multi_source_timing"}

\* the dataset is missing (None) or empty
Absent(dataset) == dataset = <<[none |-> TRUE]>> \/ dataset = <<>>

\* C11: whichever of the six datasets are missing or empty and whichever are
\* non-empty, the engine returns a list of records and raises nothing.
C11_NoErrorOnPartialData ==
    /\ analysis_outcome # "raised"
    /\ pc \in {"correlate", "significance"}
    /\ pc = "significance" =>
            \A i \in 1..Len(correlations) : correlations[i].type \in RuleTypes

\* C11 witness: the engine has returned although the gravitational-wave data
\* is missing, the seismic data is empty, the planetary data is missing and the
\* tide, space-weather and cosmic-ray data are there
C11_Witness ==
    /\ pc = "significance"
    /\ gw_data = <<[none |-> TRUE]>>
    /\ seismic_data = <<>>
    /\ planetary_data.empty
    /\ ~Absent(tide_data)
    /\ ~Absent(space_weather_data)
    /\ ~Absent(cosmic_ray_data)
    /\ Len(correlations) >= 1

(***************************************************************************)
(* Properties of the significance scores (checked under SpecSignificance)  *)
(***************************************************************************)
SignificanceReturned == pc = "insights"

\* the entries of data_sources_used that are among the six known sources
KnownUsed ==
    {i \in 1..Len(data_sources_used) :
        data_sources_used[i] \in {"gravitational_waves", "seismic", "ocean_tides",
                                  "space_weather", "cosmic_rays", "planetary_positions"}}

\* C12: data_source_diversity = min(1, |data_sources_used| / 6),
\* correlation_strength = min(1, |correlations| / 5), real_data_completeness =
\* |data_sources_used intersected with the 6 known sources| / 6, and overall =
\* the arithmetic mean of exactly these three scores.  A score x is stored as
\* x * ScoreOne.
C12_SignificanceFormula ==
    SignificanceReturned =>
        LET n == Len(data_sources_used)
            c == Len(correlations)
            sc == significance_scores
        IN  /\ DOMAIN sc = {"data_source_diversity", "correlation_strength",
                            "real_data_completeness", "overall"}
            /\ sc.data_source_diversity * 6 = (IF n < 6 THEN n ELSE 6) * ScoreOne
            /\ sc.correlation_strength * 5 = (IF c < 5 THEN c ELSE 5) * ScoreOne
            /\ sc.real_data_completeness * 6 = Cardinality(KnownUsed) * ScoreOne
            /\ sc.overall * 3 = sc.data_source_diversity + sc.correlation_strength
                                    + sc.real_data_completeness

\* C12 witness: five used sources, two of them not known ones, and three
\* correlations: diversity 5/6, strength 3/5, completeness 3/6
C12_Witness ==
    /\ SignificanceReturned
    /\ Len(data_sources_used) = 5
    /\ Cardinality(KnownUsed) = 3
    /\ Len(correlations) = 3
    /\ significance_scores.data_source_diversity * 6 = 5 * ScoreOne
    /\ significance_scores.correlation_strength * 5 = 3 * ScoreOne
    /\ significance_scores.real_data_completeness * 2 = ScoreOne

\* C13: the four significance scores are each within [0, 1] for any input, the
\* empty one (all scores 0) included, and the function raises nothing: it
\* returns its four scores for every input.
C13_ScoresInUnitInterval ==
    /\ SignificanceReturned =>
            /\ DOMAIN significance_scores = {"data_source_diversity", "correlation_strength",
                                             "real_data_completeness", "overall"}
            /\ \A k \in DOMAIN significance_scores :
                    0 <= significance_scores[k] /\ significance_scores[k] <= ScoreOne
            /\ (data_sources_used = <<>> /\ correlations = <<>>) =>
                    \A k \in DOMAIN significance_scores : significance_scores[k] = 0
    /\ pc \in {"significance", "insights"}

\* C13 witness: more than six used sources and more than five correlations, and
\* the scores are 1, not above
C13_Witness ==
    /\ SignificanceReturned
    /\ Len(data_sources_used) > 6
    /\ Len(correlations) > 5
    /\ Cardinality(KnownUsed) = 6
    /\ significance_scores.data_source_diversity = ScoreOne
    /\ significance_scores.correlation_strength = ScoreOne
    /\ significance_scores.overall = ScoreOne

(***************************************************************************)
(* Properties of a whole run (checked under Spec)                          *)
(***************************************************************************)
\* analyze_real_multi_source_correlations has returned to the session
AnalysisEnded == analysis_outcome # "running"

\* C4: in a run where every source category yields no data (data_sources_used
\* is empty) the four significance scores are all 0.  (The code's multi-source
\* rule (C2) adds a record to the empty run, so correlation_strength is 1/5.)
C4_EmptyRunScoresZero ==
    (analysis_outcome = "results" /\ data_sources_used = <<>>) =>
        /\ significance_scores.data_source_diversity = 0
        /\ significance_scores.correlation_strength = 0
        /\ significance_scores.real_data_completeness = 0
        /\ significance_scores.overall = 0

\* C5: an unknown event identifier aborts the run at once: no adapter is
\* invoked, no correlations, scores or report are produced, and the analysis
\* ends in an error to its caller, not in an ordinary (empty) result.  (The code
\* returns {} from the analysis.)
C5_UnknownEventRaises ==
    (event_name \notin DOMAIN gw_events /\ AnalysisEnded) =>
        /\ DOMAIN outcomes = {}
        /\ correlations = <<>>
        /\ significance_scores = <<>>
        /\ report = "none"
        /\ analysis_outcome = "raised"

\* the items of a category, and the names its dataset holds
ItemsOf(c) ==
    CASE c = "gravitational_waves" -> detectors
      [] c = "seismic" -> detector_locations
      [] c = "ocean_tides" -> tide_stations
      [] c = "space_weather" -> endpoints
      [] c = "cosmic_rays" -> cosmic_ray_stations
      [] c = "planetary_positions" -> planets

NamesIn(c) ==
    CASE c = "gravitational_waves" -> {gw_data[k].detector : k \in 1..Len(gw_data)}
      [] c = "seismic" -> {seismic_data[k].detector_region : k \in 1..Len(seismic_data)}
      [] c = "ocean_tides" -> {tide_data[k].station : k \in 1..Len(tide_data)}
      [] c = "space_weather" -> {space_weather_data[k].data_type : k \in 1..Len(space_weather_data)}
      [] c = "cosmic_rays" -> {cosmic_ray_data[k].station : k \in 1..Len(cosmic_ray_data)}
      [] c = "planetary_positions" ->
            {planetary_data.positions[k].body : k \in 1..Len(planetary_data.positions)}

\* the category's dataset is truthy
HasData(c) == IF c = "planetary_positions" THEN ~planetary_data.empty ELSE NamesIn(c) # {}

\* an exception was raised, and caught, inside the category's adapter
AdapterFailed(c) ==
    /\ c \in DOMAIN outcomes
    /\ \/ outcomes[c].whole
       \/ \E i \in DOMAIN outcomes[c].items : outcomes[c].items[i] \in {"error", "partial"}

\* C6 as claimed: a failure inside an adapter is absorbed, the run returns a
\* result, and the category of the failing adapter has no data and is absent
\* from data_sources_used.
C6_FailedCategoryHasNoData ==
    AnalysisEnded /\ event_name \in DOMAIN gw_events =>
        /\ analysis_outcome = "results"
        /\ \A c \in DOMAIN outcomes :
                AdapterFailed(c) => ~HasData(c) /\ c \notin Range(data_sources_used)

\* C6 as amended: a failure inside an adapter is absorbed and the run returns a
\* result; a category's dataset holds exactly the items whose own request gave
\* data (a seismic region also when reading its events failed after the first),
\* whatever happened in the other adapters, and the category is in
\* data_sources_used exactly when that dataset is non-empty.
C6_FailureAbsorbed ==
    /\ AnalysisEnded /\ event_name \in DOMAIN gw_events =>
            /\ analysis_outcome = "results"
            /\ DOMAIN outcomes = Range(real_data_sources)
    /\ \A c \in Range(real_data_sources) :
            IF c \in DOMAIN outcomes
            THEN /\ IF outcomes[c].whole
                    THEN ~HasData(c)
                    ELSE NamesIn(c) = {ItemsOf(c)[i] : i \in {j \in DOMAIN outcomes[c].items :
                                                    outcomes[c].items[j] \in {"data", "partial"}}}
                 /\ c \in Range(data_sources_used) <=> HasData(c)
            ELSE ~HasData(c) /\ c \notin Range(data_sources_used)

\* C6 witness: the run returned a result although one detector's fetch raised;
\* the other detectors' data is there and gravitational_waves counts as used
C6_Witness ==
    /\ analysis_outcome = "results"
    /\ outcomes["gravitational_waves"].items[1] = "error"
    /\ Len(gw_data) = 2
    /\ "gravitational_waves" \in Range(data_sources_used)
    /\ outcomes["seismic"].items = [i \in 1..Len(detector_locations) |-> "error"]
    /\ "seismic" \notin Range(data_sources_used)
    /\ Len(tide_data) = Len(tide_stations)

(***************************************************************************)
(* Properties of _calculate_planetary_alignment (checked under             *)
(* SpecAlignment)                                                          *)
(***************************************************************************)
\* the alignment of planetary_data.positions has been calculated
Aligned == pc = "aligned"

\* C16: the alignment of fewer than two bodies is the empty result
C16_FewerThanTwoBodiesEmpty ==
    (Aligned /\ Len(planetary_data.positions) < 2) => alignment_metrics = [empty |-> TRUE]

\* the alignment of one body with a right ascension was calculated and is empty
C16_Witness ==
    /\ Aligned
    /\ Len(planetary_data.positions) = 1
    /\ planetary_data.positions[1].ra_deg # NoAngle
    /\ alignment_metrics = [empty |-> TRUE]

\* exactly two bodies, both with a right ascension, at the same RA and Dec
TwoIdenticalPositions ==
    /\ Len(planetary_data.positions) = 2
    /\ planetary_data.positions[1].ra_deg # NoAngle
    /\ planetary_data.positions[1].ra_deg = planetary_data.positions[2].ra_deg
    /\ planetary_data.positions[1].dec_deg = planetary_data.positions[2].dec_deg

\* C17: the angular separation of two identical positions is 0.0 degrees,
\* whatever the rounding of cos_sep
C17_IdenticalPositionsZero ==
    (Aligned /\ TwoIdenticalPositions) =>
        /\ ~alignment_metrics.empty
        /\ alignment_metrics.min_separation_deg = [deg |-> 0, fine |-> 0, nan |-> FALSE]


(***************************************************************************)
(* The order of the steps of a run (checked under Spec)                    *)
(***************************************************************************)
\* every one of the six fetches has returned
AllFetched == Range(real_data_sources) \subseteq DOMAIN outcomes

\* the engine has returned and its list is in correlations_found
CorrelationsStored ==
    /\ engine_calls # <<>>
    /\ ~engine_calls[Len(engine_calls)].raised
    /\ correlations = engine_calls[Len(engine_calls)].result

\* C18: the engine starts only when all six fetches have returned, the
\* significance scores are computed only when the correlation list is stored,
\* and the insights only when the significance scores are stored
C18_StepsOrdered ==
    [][/\ engine_calls' # engine_calls => AllFetched
       /\ significance_scores' # significance_scores => CorrelationsStored
       /\ insights' # insights =>
            /\ significance_scores # <<>>
            /\ significance_scores' = significance_scores
            /\ CorrelationsStored]_vars

\* an analysis went through all its steps: fetches, engine, scores, insights
C18_Witness ==
    /\ analysis_outcome = "results"
    /\ AllFetched
    /\ CorrelationsStored
    /\ significance_scores # <<>>
    /\ insights # <<>>

(***************************************************************************)
(* Rate limiting (checked under Spec)                                      *)
(***************************************************************************)
\* C19: two consecutive requests to a provider are at least its rate_limit
\* apart
C19_RequestsSpacedByRateLimit ==
    \A source \in DOMAIN rate_limit :
        Len(sent[source]) = 2 => sent[source][2] - sent[source][1] >= rate_limit[source]

(***************************************************************************)
(* The data cache (checked under SpecCache)                                *)
(***************************************************************************)
\* what the call that just returned did for detector i
GwOutcome(i) == outcomes["gravitational_waves"].items[i]

\* C20: an entry of the cache stays, with the same dataset; a fetch for a
\* cached event and detector returns the cached dataset without asking the
\* remote source; a detector that failed or had no data gets no entry
C20_CacheKeepsEntries ==
    [][/\ \A key \in DOMAIN data_cache :
            key \in DOMAIN data_cache' /\ data_cache'[key] = data_cache[key]
       /\ (pc = "idle" /\ pc' = "fetched") =>
            \A i \in 1..Len(detectors) :
                LET key == CacheKey(event_name', detectors[i])
                IN  /\ key \in DOMAIN data_cache =>
                        /\ GwOutcome(i)' = "cached"
                        /\ \E k \in 1..Len(gw_data') : gw_data'[k] = data_cache[key]
                    /\ (key \notin DOMAIN data_cache /\ GwOutcome(i)' \in {"none", "error"}) =>
                        key \notin DOMAIN data_cache']_vars

\* a second fetch for an event has returned: two detectors came from the
\* cache, the third failed again and has no entry, and the other event's
\* entries are still there
C20_Witness ==
    /\ pc = "fetched"
    /\ GwOutcome(1) = "cached"
    /\ GwOutcome(2) = "cached"
    /\ GwOutcome(3) \in {"none", "error"}
    /\ Len(gw_data) = 2
    /\ CacheKey(event_name, detectors[3]) \notin DOMAIN data_cache
    /\ \E key \in DOMAIN data_cache : key[2] # event_name

(***************************************************************************)
(* The HTTP session of a run (checked under Spec)                          *)
(***************************************************************************)
\* run_real_analysis_session has returned or raised
SessionOver == session_outcome # "running"

\* an exception left the try block: the analysis raised, the report of an
\* unknown event raised, or the files could not be written
ExceptionInSession ==
    \/ analysis_outcome \in {"raised", "empty_dict"}
    \/ report = "generated" /\ files_saved = {}

\* C21: when a run whose session was opened is over, the session is closed,
\* and the run has raised exactly when an exception left its try block
C21_SessionClosedAndReraised ==
    (SessionOver /\ session # "none") =>
        /\ session = "closed"
        /\ ExceptionInSession <=> session_outcome = "raised"

\* a run whose files could not be written is over: closed and raised
C21_Witness ==
    /\ SessionOver
    /\ report = "generated"
    /\ files_saved = {}
    /\ session = "closed"
    /\ session_outcome = "raised"

(***************************************************************************)
(* Concurrent calls of _rate_limit (checked under SpecRace)                *)
(***************************************************************************)
\* C22: two coroutines that called _rate_limit for the same source do not
\* both proceed within one rate_limit interval of each other
C22_NoTwoProceedTogether ==
    \A c, d \in Callers :
        (/\ c # d
         /\ coroutines[c].at = "returned"
         /\ coroutines[d].at = "returned"
         /\ coroutines[c].source = coroutines[d].source) =>
            Abs(coroutines[c].proceeded - coroutines[d].proceeded)
                >= rate_limit[coroutines[c].source]

(***************************************************************************)
(* data_sources_used of a completed analysis (checked under Spec)          *)
(***************************************************************************)
\* the analysis has returned its results
AnalysisCompleted == analysis_outcome = "results"

\* the adapter of the category returned a non-empty list or dict
ReturnedData(category) ==
    CASE category = "gravitational_waves" -> gw_data # <<>>
      [] category = "seismic" -> seismic_data # <<>>
      [] category = "ocean_tides" -> tide_data # <<>>
      [] category = "space_weather" -> space_weather_data # <<>>
      [] category = "cosmic_rays" -> cosmic_ray_data # <<>>
      [] category = "planetary_positions" -> ~planetary_data.empty

\* C23: after a completed analysis, data_sources_used holds exactly the
\* categories whose adapter returned data, each once and each a known source,
\* and data_source_diversity equals real_data_completeness
C23_UsedSourcesMatchData ==
    AnalysisCompleted =>
        /\ \A category \in Range(real_data_sources) :
                category \in Range(data_sources_used) <=> ReturnedData(category)
        /\ Range(data_sources_used) \subseteq Range(real_data_sources)
        /\ Cardinality(Range(data_sources_used)) = Len(data_sources_used)
        /\ significance_scores.data_source_diversity
                = significance_scores.real_data_completeness

\* a completed analysis with data from some categories and none from others
C23_Witness ==
    /\ AnalysisCompleted
    /\ gw_data # <<>>
    /\ "gravitational_waves" \in Range(data_sources_used)
    /\ seismic_data = <<>>
    /\ "seismic" \notin Range(data_sources_used)
    /\ significance_scores.data_source_diversity > 0
    /\ significance_scores.data_source_diversity < ScoreOne
    /\ significance_scores.data_source_diversity = significance_scores.real_data_completeness

====
